---- MODULE Spec2Model ----
(***************************************************************************)
(* ArrayVecDeque<A>: a fixed-capacity ring buffer over a backing array     *)
(* [T; N] (src/src/array_vec_deque.rs), with the Array / Index traits of   *)
(* src/src/array.rs.                                                       *)
(*                                                                         *)
(* N is the backing array's length (A::capacity()), drawn from the sizes   *)
(* array.rs implements Array for.  `debug` is the build profile: with      *)
(* debug assertions on, debug_assert! and arithmetic overflow panic; with  *)
(* them off, debug_assert! is compiled out and usize arithmetic wraps.     *)
(* A panic is modelled as a returned outcome that leaves the deque as it   *)
(* was when the panic was raised (the caller may catch it and go on).      *)
(* An out-of-bounds raw access is undefined behaviour: the object is then  *)
(* marked "ub" and no further operation is modelled on it.                 *)
(***************************************************************************)
EXTENDS Integers, Sequences, FiniteSets, TLC

\* ---- bounds of the model
MaxN == 4
MaxVal == 2
\* the arithmetic is applied to the indexes 0..MaxSample and to the boundary ones
MaxSample == 3

\* ---- program constants
\* usize of the narrowest target array.rs mentions (16-bit pointers)
UsizeBits == 16
\* marker of a slot that holds no element (raw storage / moved out)
Uninit == 0

UsizeMax == 2^UsizeBits - 1

\* the sizes of the u8-indexed arrays, array.rs fix_array_impl_recursive!(u8, ...)
U8Sizes == (0..32) \cup {40, 48, 50, 56, 64, 72, 96, 100, 128, 160, 192, 200, 224}
Sizes == {n \in U8Sizes : n <= MaxN}
Values == 1..MaxVal
\* indexes a caller passes to get / get_mut / []: small ones and the largest usize
Indexes == (0..MaxN) \cup {UsizeMax}

VARIABLES
  N,       \* A::capacity(), the length of the backing array
  debug,   \* TRUE: debug assertions and overflow checks are on
  tail,    \* self.tail : A::Index
  head,    \* self.head : A::Index
  buf,     \* self.buf : slot -> element or Uninit
  alive,   \* "live", "dropped" (after Drop) or "ub" (after undefined behaviour)
  op,      \* the last operation called
  arg,     \* its argument (a value or an index; 0 when it has none)
  ret,     \* what it returned
  reads,   \* the slots it read or handed out a reference to
  writes,  \* the slots it wrote
  drops,   \* the elements it destroyed, in order
  calls,   \* the results of the pop_front calls it made in its loop, in order
  pre,     \* the cursors before it ran
  list,    \* a plain ordered list bounded to N-1 elements, run side by side
  lret     \* what the same operation returned on the list

vars == <<N, debug, tail, head, buf, alive, op, arg, ret, reads, writes, drops, calls,
          pre, list, lret>>

\* ---- results
R(kind, val, why) == [kind |-> kind, val |-> val, why |-> why]
None == R("None", 0, "")
Some(v) == R("Some", v, "")
Ok == R("Ok", 0, "")
CapacityError(v) == R("Err", v, "CapacityError")
Val(n) == R("Val", n, "")
Panic(why) == R("Panic", 0, why)
Bool(b) == Val(IF b THEN 1 ELSE 0)
NA == R("NA", 0, "")

\* an element's own destructor (Drop of A::Item, the caller's code) panicking
DtorPanic == Panic("element destructor panicked")

\* the outcome of one call: the deque afterwards, the result, the slots touched
Out(s, r, rd, wr, dr, ub) ==
  [s |-> s, ret |-> r, reads |-> rd, writes |-> wr, drops |-> dr, ub |-> ub,
   calls |-> <<>>]

\* ---- array.rs
\* the sizes of the u16-indexed arrays, and the u32-indexed one (1 << 16, which
\* is compiled for 32- and 64-bit targets only)
U16Sizes == {256, 384, 512, 768, 1024, 2048, 4096, 8192, 16384, 32768}
U32Sizes == {2^16}
ArraySizes == U8Sizes \cup U16Sizes \cup U32Sizes

\* (mutant) every size given the u8 index
IndexBits_all_u8(n) == 8

IndexBits(n) == IF n <= 224 THEN 8 ELSE IF n <= 32768 THEN 16 ELSE 32
\* `x as uK`: x modulo 2^K (for K > 16 computed from the two 16-bit halves)
Trunc(x, bits) ==
  IF bits <= 16 THEN x % (2^bits)
  ELSE (x % (2^16)) + (2^16) * ((x \div (2^16)) % (2^(bits - 16)))
\* Index::from(ix) is `ix as u8` (u16, u32): truncation to the index width
IndexFrom(ix) == Trunc(ix, IndexBits(N))
\* to_usize(self) is `self as usize`
to_usize(ix) == Trunc(ix, UsizeBits)
cap == N
new_array == [i \in 0..(N - 1) |-> Uninit]

self == [tail |-> tail, head |-> head, buf |-> buf]

\* ---- usize arithmetic
\* the value a wrapping usize operation leaves in a release build
Wrap(x) == x % (2^UsizeBits)

\* ---- array_vec_deque.rs: free functions
\* (mutant) the wrapped case computed as the plain distance tail - head
count_no_wrap(t, h, size) == IF t <= h THEN h - t ELSE t - h

\* count(tail, head, size): the number of elements left to be read.  With
\* tail > size the subtraction overflows: that is reached only after the cursors
\* left [0, size), in a build whose usize arithmetic wraps
count(t, h, size) == IF t <= h THEN h - t ELSE Wrap(Wrap(size - t) + h)

\* wrap_index(index, size) is index % size; size = 0 panics (division by zero)
wrap_index(index, size) == index % size

\* ---- array_vec_deque.rs: private helpers
Fine(v) == [ok |-> TRUE, val |-> v, why |-> ""]
Fail(why) == [ok |-> FALSE, val |-> 0, why |-> why]

len(s) == count(to_usize(s.tail), to_usize(s.head), cap)

is_empty(s) == to_usize(s.tail) = to_usize(s.head)

\* (mutant) full one element late: cap - len == 0
is_full_one_late(s) == cap - len(s) = 0

\* self.cap() - self.len() == 1
is_full(s) == cap - len(s) = 1

\* self.wrap_index(idx): the usize instance of Index::from is the identity
self_wrap_index(idx) ==
  IF cap = 0 THEN Fail("attempt to calculate the remainder with a divisor of zero")
  ELSE Fine(wrap_index(to_usize(idx), cap))

wrap_add(idx, addend) ==
  LET i == to_usize(idx) IN
  IF debug /\ ~(i < cap) THEN Fail("assertion failed: idx < self.cap()")
  ELSE IF debug /\ ~(addend < cap) THEN Fail("assertion failed: addend < self.cap()")
  ELSE IF i + addend > UsizeMax THEN Fail("very large addends are not currently supported")
  ELSE LET w == self_wrap_index(i + addend) IN
       IF w.ok THEN Fine(IndexFrom(w.val)) ELSE w

\* (mutant) the wrapped case left as the wrapping difference, N not added back
wrap_sub_no_add_back(idx, subtrahend) ==
  LET i == to_usize(idx) IN
  IF i >= subtrahend
  THEN LET w == self_wrap_index(i - subtrahend) IN
       IF w.ok THEN Fine(IndexFrom(w.val)) ELSE w
  ELSE Fine(IndexFrom(Wrap(i - subtrahend)))

wrap_sub(idx, subtrahend) ==
  LET i == to_usize(idx) IN
  IF debug /\ ~(i < cap) THEN Fail("assertion failed: idx < self.cap()")
  ELSE IF debug /\ ~(subtrahend < cap) THEN Fail("assertion failed: subtrahend < self.cap()")
  ELSE IF i >= subtrahend
       THEN LET w == self_wrap_index(i - subtrahend) IN
            IF w.ok THEN Fine(IndexFrom(w.val)) ELSE w
       ELSE Fine(IndexFrom(Wrap(Wrap(cap - subtrahend) + i)))

\* buffer_read(off): ptr::read moves the element out; off outside the array is
\* undefined behaviour
buffer_read(s, off) ==
  IF off \in DOMAIN s.buf
  THEN Out([s EXCEPT !.buf[off] = Uninit], Some(s.buf[off]), {off}, {}, <<>>, FALSE)
  ELSE Out(s, R("UB", 0, "read outside the array"), {off}, {}, <<>>, TRUE)

\* buffer_write(off, value): ptr::write moves the element in
buffer_write(s, off, value) ==
  IF off \in DOMAIN s.buf
  THEN Out([s EXCEPT !.buf[off] = value], Ok, {}, {off}, <<>>, FALSE)
  ELSE Out(s, R("UB", 0, "write outside the array"), {}, {off}, <<>>, TRUE)

\* ---- array_vec_deque.rs: public operations
capacity ==
  IF cap - 1 < 0
  THEN IF debug THEN Panic("attempt to subtract with overflow") ELSE Val(Wrap(cap - 1))
  ELSE Val(cap - 1)

\* (mutant) the slot read after the cursor moved: the element at the new tail
pop_front_reads_new_tail(s) ==
  IF is_empty(s) THEN Out(s, None, {}, {}, <<>>, FALSE)
  ELSE LET w == wrap_add(s.tail, 1) IN
       IF ~w.ok THEN Out(s, Panic(w.why), {}, {}, <<>>, FALSE)
       ELSE buffer_read([s EXCEPT !.tail = w.val], to_usize(w.val))

pop_front(s) ==
  IF is_empty(s) THEN Out(s, None, {}, {}, <<>>, FALSE)
  ELSE LET t == to_usize(s.tail)
           w == wrap_add(s.tail, 1)
       IN IF ~w.ok THEN Out(s, Panic(w.why), {}, {}, <<>>, FALSE)
          ELSE buffer_read([s EXCEPT !.tail = w.val], t)

\* (mutant) the emptiness test left out
pop_back_unchecked(s) ==
  LET w == wrap_sub(s.head, 1) IN
  IF ~w.ok THEN Out(s, Panic(w.why), {}, {}, <<>>, FALSE)
  ELSE buffer_read([s EXCEPT !.head = w.val], to_usize(w.val))

pop_back(s) ==
  IF is_empty(s) THEN Out(s, None, {}, {}, <<>>, FALSE)
  ELSE LET w == wrap_sub(s.head, 1) IN
       IF ~w.ok THEN Out(s, Panic(w.why), {}, {}, <<>>, FALSE)
       ELSE buffer_read([s EXCEPT !.head = w.val], to_usize(w.val))

try_push_back(s, value) ==
  IF is_full(s) THEN Out(s, CapacityError(value), {}, {}, <<>>, FALSE)
  ELSE LET h == to_usize(s.head)
           w == wrap_add(s.head, 1)
       IN IF ~w.ok THEN Out(s, Panic(w.why), {}, {}, <<>>, FALSE)
          ELSE buffer_write([s EXCEPT !.head = w.val], h, value)

\* (mutant) the tail moved forward, as try_push_back moves the head
try_push_front_wrap_add(s, value) ==
  IF is_full(s) THEN Out(s, CapacityError(value), {}, {}, <<>>, FALSE)
  ELSE LET w == wrap_add(s.tail, 1) IN
       IF ~w.ok THEN Out(s, Panic(w.why), {}, {}, <<>>, FALSE)
       ELSE buffer_write([s EXCEPT !.tail = w.val], to_usize(w.val), value)

try_push_front(s, value) ==
  IF is_full(s) THEN Out(s, CapacityError(value), {}, {}, <<>>, FALSE)
  ELSE LET w == wrap_sub(s.tail, 1) IN
       IF ~w.ok THEN Out(s, Panic(w.why), {}, {}, <<>>, FALSE)
       ELSE buffer_write([s EXCEPT !.tail = w.val], to_usize(w.val), value)

\* Result::unwrap: an Err panics, and the rejected value is destroyed with it
unwrap(o) ==
  IF o.ret.kind = "Err"
  THEN [o EXCEPT !.ret = Panic("called Result::unwrap on an Err value"),
                 !.drops = <<o.ret.val>>]
  ELSE o

push_back(s, value) == unwrap(try_push_back(s, value))

push_front(s, value) == unwrap(try_push_front(s, value))

\* while let Some(_) = self.pop_front() {}: each popped element is destroyed at
\* the end of its iteration.  f is the caller's part: the f-th destruction
\* panics (0: none does), and the panic unwinds out of the loop.
RECURSIVE clear_loop(_, _, _, _, _)
clear_loop(s, rd, dr, cl, f) ==
  LET o == pop_front(s)
      c2 == Append(cl, o.ret.kind)
  IN IF o.ret.kind = "Some"
     THEN LET dr2 == Append(dr, o.ret.val) IN
          IF Len(dr2) = f
          THEN [Out(o.s, DtorPanic, rd \cup o.reads, {}, dr2, FALSE) EXCEPT !.calls = c2]
          ELSE clear_loop(o.s, rd \cup o.reads, dr2, c2, f)
     ELSE IF o.ret.kind = "None"
          THEN [Out(o.s, Ok, rd, {}, dr, FALSE) EXCEPT !.calls = c2]
          ELSE [Out(o.s, o.ret, rd \cup o.reads, {}, dr, o.ub) EXCEPT !.calls = c2]

\* (mutant) `if let` for `while let`: one element popped
clear_once(s, f) ==
  LET o == pop_front(s) IN
  IF o.ret.kind = "Some"
  THEN [Out(o.s, IF f = 1 THEN DtorPanic ELSE Ok, o.reads, {}, <<o.ret.val>>, FALSE)
          EXCEPT !.calls = <<"Some">>]
  ELSE [Out(o.s, Ok, {}, {}, <<>>, FALSE) EXCEPT !.calls = <<"None">>]

\* (mutant) the loop polls pop_front once more after it returned None
clear_polls_again(s, f) ==
  LET o == clear_loop(s, {}, <<>>, <<>>, f) IN
  IF o.ret = Ok THEN [o EXCEPT !.calls = @ \o <<pop_front(o.s).ret.kind>>] ELSE o

clear(s, f) == clear_loop(s, {}, <<>>, <<>>, f)

\* (mutant) the logical index taken as the physical one, the tail ignored
get_ignores_tail(s, index) ==
  IF index < len(s)
  THEN Out(s, Some(s.buf[index % cap]), {index % cap}, {}, <<>>, FALSE)
  ELSE Out(s, None, {}, {}, <<>>, FALSE)

\* (mutant) the bound checked with <= : index = len() is let through
get_one_past(s, index) ==
  IF index <= len(s) /\ cap > 0
  THEN LET idx == (to_usize(s.tail) + index) % cap IN
       Out(s, Some(s.buf[idx]), {idx}, {}, <<>>, FALSE)
  ELSE Out(s, None, {}, {}, <<>>, FALSE)

\* get(index): Some(&slot) or None; the slot referred to is recorded in reads
get(s, index) ==
  IF index < len(s)
  THEN LET w == wrap_add(s.tail, index) IN
       IF ~w.ok THEN Out(s, Panic(w.why), {}, {}, <<>>, FALSE)
       ELSE LET idx == to_usize(w.val) IN
            IF idx \in DOMAIN s.buf
            THEN Out(s, Some(s.buf[idx]), {idx}, {}, <<>>, FALSE)
            ELSE Out(s, R("UB", 0, "reference outside the array"), {idx}, {}, <<>>, TRUE)
  ELSE Out(s, None, {}, {}, <<>>, FALSE)

\* get_mut(index): as get; the caller then stores `value` through the reference
get_mut(s, index, value) ==
  LET o == get(s, index) IN
  IF o.ret.kind = "Some"
  THEN LET idx == CHOOSE i \in o.reads : TRUE IN
       [o EXCEPT !.s.buf[idx] = value, !.writes = {idx}]
  ELSE o

\* Option::expect("Out of bounds access")
expect(o) == IF o.ret.kind = "None" THEN [o EXCEPT !.ret = Panic("Out of bounds access")] ELSE o

index(s, i) == expect(get(s, i))

index_mut(s, i, value) == expect(get_mut(s, i, value))

\* NoDrop<A>: dropping the buf field destroys no slot of the array, also when
\* it is dropped by an unwinding panic
NoDrop_drop(b) == <<>>

\* (mutant) the drain run again after a destructor panicked out of it
drop_redrains(s, f) ==
  LET o == clear(s, f) IN
  IF o.ret = DtorPanic
  THEN LET o2 == clear(o.s, 0) IN
       [o2 EXCEPT !.ret = DtorPanic, !.reads = o.reads \cup o2.reads,
                  !.drops = o.drops \o o2.drops, !.calls = o.calls \o o2.calls]
  ELSE o

\* Drop for ArrayVecDeque: self.clear(), then the fields are dropped; Drop::drop
\* runs once for an object
drop(s, f) ==
  LET o == clear(s, f) IN [o EXCEPT !.drops = o.drops \o NoDrop_drop(o.s.buf)]

\* ---- the plain ordered list, bounded to N-1 elements
ListOut(l, r) == [l |-> l, ret |-> r]
list_push_back(l, v) ==
  IF Len(l) < N - 1 THEN ListOut(Append(l, v), Ok) ELSE ListOut(l, CapacityError(v))
list_push_front(l, v) ==
  IF Len(l) < N - 1 THEN ListOut(<<v>> \o l, Ok) ELSE ListOut(l, CapacityError(v))
list_pop_front(l) ==
  IF l = <<>> THEN ListOut(l, None) ELSE ListOut(Tail(l), Some(Head(l)))
list_pop_back(l) ==
  IF l = <<>> THEN ListOut(l, None) ELSE ListOut(SubSeq(l, 1, Len(l) - 1), Some(l[Len(l)]))
\* the list drained from the front, the f-th destruction panicking
list_clear(l, f) ==
  IF f = 0 THEN ListOut(<<>>, Ok) ELSE ListOut(SubSeq(l, f + 1, Len(l)), DtorPanic)
list_set(l, i, v) == IF i < Len(l) THEN [l EXCEPT ![i + 1] = v] ELSE l

\* ---- the state machine
Init ==
  /\ N \in Sizes
  /\ debug \in BOOLEAN
  /\ tail = IndexFrom(0)
  /\ head = IndexFrom(0)
  /\ buf = new_array
  /\ alive = "live"
  /\ op = "new" /\ arg = 0 /\ ret = Ok
  /\ reads = {} /\ writes = {} /\ drops = <<>> /\ calls = <<>>
  /\ pre = [tail |-> 0, head |-> 0]
  /\ list = <<>> /\ lret = NA

\* one call `name(a)` with outcome o on the deque and lo on the list
Do(name, a, o, lo, after) ==
  /\ alive = "live"
  /\ op' = name /\ arg' = a
  /\ ret' = o.ret /\ reads' = o.reads /\ writes' = o.writes /\ drops' = o.drops
  /\ calls' = o.calls
  /\ tail' = o.s.tail /\ head' = o.s.head /\ buf' = o.s.buf
  /\ alive' = IF o.ub THEN "ub" ELSE after
  /\ pre' = [tail |-> tail, head |-> head]
  /\ list' = lo.l /\ lret' = lo.ret
  /\ UNCHANGED <<N, debug>>

Query(name, a, r) == Do(name, a, Out(self, r, {}, {}, <<>>, FALSE), ListOut(list, NA), "live")

Len_ == Query("len", 0, Val(len(self)))
IsEmpty == Query("is_empty", 0, Bool(is_empty(self)))
Capacity == Query("capacity", 0, capacity)
TryPushBack == \E v \in Values :
  Do("try_push_back", v, try_push_back(self, v), list_push_back(list, v), "live")
TryPushFront == \E v \in Values :
  Do("try_push_front", v, try_push_front(self, v), list_push_front(list, v), "live")
PushBack == \E v \in Values :
  Do("push_back", v, push_back(self, v), ListOut(list_push_back(list, v).l, NA), "live")
PushFront == \E v \in Values :
  Do("push_front", v, push_front(self, v), ListOut(list_push_front(list, v).l, NA), "live")
PopFront == Do("pop_front", 0, pop_front(self), list_pop_front(list), "live")
PopBack == Do("pop_back", 0, pop_back(self), list_pop_back(list), "live")
Clear == \E f \in 0..len(self) :
  Do("clear", 0, clear(self, f), list_clear(list, f), "live")
Get == \E i \in Indexes :
  Do("get", i, get(self, i), ListOut(list, NA), "live")
GetMut == \E i \in Indexes, v \in Values :
  Do("get_mut", i, get_mut(self, i, v), ListOut(list_set(list, i, v), NA), "live")
Index_ == \E i \in Indexes :
  Do("index", i, index(self, i), ListOut(list, NA), "live")
IndexMut == \E i \in Indexes, v \in Values :
  Do("index_mut", i, index_mut(self, i, v), ListOut(list_set(list, i, v), NA), "live")
Drop == \E f \in 0..len(self) :
  Do("drop", 0, drop(self, f), ListOut(<<>>, NA), "dropped")

Next ==
  \/ Len_ \/ IsEmpty \/ Capacity
  \/ TryPushBack \/ TryPushFront \/ PushBack \/ PushFront
  \/ PopFront \/ PopBack \/ Clear
  \/ Get \/ GetMut \/ Index_ \/ IndexMut
  \/ Drop

Spec == Init /\ [][Next]_vars

\* ---- claims
PushOps == {"try_push_back", "try_push_front"}
PopOps == {"pop_back", "pop_front"}
ListOps == PushOps \cup PopOps \cup {"clear"}

\* C1: for every supported N and every sequence of try_push_back, try_push_front,
\* pop_back, pop_front and clear from new(), each call returns what the same call
\* returns on a plain ordered list bounded to N-1 elements, and after every step
\* len() is the list's length.
C1_BehavesLikeBoundedList ==
  /\ op \in ListOps => ret = lret
  /\ len(self) = Len(list)

\* C2: on a full buffer (len() = N-1) try_push_back(v) and try_push_front(v)
\* return Err(CapacityError) carrying v, and tail, head and every slot are as
\* before the call.
C2_FullPushRejectedUnchanged ==
  [][(alive = "live" /\ len(self) = N - 1 /\ op' \in PushOps)
       => (/\ ret' = CapacityError(arg')
           /\ tail' = tail /\ head' = head /\ buf' = buf
           /\ writes' = {})]_vars

C2_Witness ==
  /\ op \in PushOps /\ ret = CapacityError(arg)
  /\ N >= 3 /\ len(self) = N - 1 /\ head < tail

\* C3: on an empty buffer (tail = head) pop_back() and pop_front() return None,
\* read no slot and leave tail and head unchanged, also when tail = head # 0.
C3_EmptyPopReturnsNone ==
  [][(alive = "live" /\ tail = head /\ op' \in PopOps)
       => (/\ ret' = None
           /\ reads' = {}
           /\ tail' = tail /\ head' = head /\ buf' = buf)]_vars

C3_Witness ==
  /\ op \in PopOps /\ ret = None /\ tail = head /\ tail # 0
  /\ pre = [tail |-> tail, head |-> head]

\* C4: for every supported N, in every state reachable from new(), at most N-1
\* slots are occupied (len() <= N-1), and no successful try_push_back or
\* try_push_front ends with head = tail.
C4_AtMostNMinusOneOccupied ==
  /\ len(self) <= N - 1
  /\ (op \in PushOps /\ ret = Ok) => head # tail

\* C5: in every state reachable from new(), 0 <= tail < N and 0 <= head < N.
C5_CursorsInRange ==
  /\ 0 <= tail /\ tail < N
  /\ 0 <= head /\ head < N

GetOps == {"get", "get_mut", "index", "index_mut"}

\* C6: in every reachable state and for every i < len(), get(i), get_mut(i) and
\* [i] refer to the physical slot (tail + i) mod N, and the value there is the
\* i-th element from the front: index 0 is what pop_front would return, index
\* len()-1 what pop_back would return.
C6_GetIsIthFromFront ==
  alive = "live" =>
    /\ \A i \in 0..(len(self) - 1) :
         LET g == get(self, i) IN
         /\ g.ret = Some(list[i + 1])
         /\ g.reads = {(tail + i) % N}
         /\ index(self, i).ret = g.ret /\ index(self, i).reads = g.reads
         /\ \A v \in Values :
              /\ get_mut(self, i, v).reads = g.reads
              /\ get_mut(self, i, v).writes = g.reads
              /\ index_mut(self, i, v).reads = g.reads
         /\ (i = 0 => pop_front(self).ret = g.ret)
         /\ (i = len(self) - 1 => pop_back(self).ret = g.ret)
    /\ (op \in GetOps /\ arg < len(self)) =>
         /\ reads = {(tail + arg) % N}
         /\ buf[(tail + arg) % N] = list[arg + 1]
         /\ op \in {"get", "index"} => ret = Some(list[arg + 1])

C6_Witness ==
  /\ op = "index" /\ arg = 1 /\ Len(list) >= 2
  /\ ret = Some(list[2])
  /\ tail = N - 1 /\ reads = {0}
  /\ list[1] # list[2]

\* C7: in every reachable state and for every i >= len(), however large, get(i)
\* and get_mut(i) return None and touch no slot or cursor, while [i] (Index and
\* IndexMut) panics.
C7_OutOfRangeGetNoneIndexPanics ==
  [][(alive = "live" /\ op' \in GetOps /\ arg' >= len(self))
       => (/\ tail' = tail /\ head' = head /\ buf' = buf
           /\ reads' = {} /\ writes' = {}
           /\ op' \in {"get", "get_mut"} => ret' = None
           /\ op' \in {"index", "index_mut"} => ret' = Panic("Out of bounds access"))]_vars

C7_Witness ==
  /\ op = "index_mut" /\ arg = UsizeMax /\ ret = Panic("Out of bounds access")
  /\ len(self) > 0 /\ head < tail

\* C8: in every reachable state that is not full, push_back(x) succeeds, and a
\* pop_back() right after it returns Some(x) and leaves len(), tail and head as
\* they were before the push_back.
C8_PushBackPopBackRoundTrip ==
  [][/\ (alive = "live" /\ len(self) # N - 1 /\ op' = "push_back") => ret' = Ok
     /\ (/\ alive = "live" /\ op = "push_back"
         /\ count(pre.tail, pre.head, N) # N - 1
         /\ op' = "pop_back")
          => (/\ ret' = Some(arg)
              /\ tail' = pre.tail /\ head' = pre.head
              /\ count(tail', head', N) = count(pre.tail, pre.head, N))]_vars

C10_CapacityIsNMinusOne ==
  op = "capacity" => ret = Val(N - 1)

\* the physical slots of the logical range [tail, head), front to back
Occupied == {(tail + i) % N : i \in 0..(len(self) - 1)}
\* the physical slots that hold an element
Initialized == {i \in DOMAIN buf : buf[i] # Uninit}
DrainOps == {"clear", "drop"}

\* C11: when clear() or Drop runs on a reachable state and no element
\* destruction fails, every element of the logical range [tail, head) is moved
\* out of its slot and destroyed exactly once, front to back, no other slot is
\* read, the buffer ends empty, and the backing block destroys no slot itself.
C11_DrainDestroysEachOnceInOrder ==
  [][(alive = "live" /\ op' \in DrainOps /\ ret' # DtorPanic)
       => LET k == len(self) IN
          /\ ret' = Ok
          /\ drops' = [i \in 1..k |-> buf[(tail + i - 1) % N]]
          /\ \A i \in 1..k : drops'[i] # Uninit
          /\ reads' = Occupied /\ Cardinality(reads') = k
          /\ calls' = [i \in 1..(k + 1) |-> IF i <= k THEN "Some" ELSE "None"]
          /\ \A i \in DOMAIN buf' : buf'[i] = Uninit
          /\ tail' = head' /\ count(tail', head', N) = 0]_vars

C11_Witness ==
  /\ op = "drop" /\ ret = Ok /\ alive = "dropped"
  /\ Len(drops) >= 2 /\ drops[1] # drops[2]
  /\ pre.head < pre.tail

\* C12: in every reachable state len() is head - tail when tail <= head and
\* N - tail + head otherwise, which is (head - tail) mod N and the number of
\* slots holding a pushed and not yet popped element; so is_empty() holds
\* exactly when len() = 0.
C12_LenIsDistanceAndOccupancy ==
  /\ tail <= head => len(self) = head - tail
  /\ tail > head => len(self) = N - tail + head
  /\ N > 0 => len(self) = (head - tail) % N
  /\ len(self) = Cardinality(Initialized)
  /\ is_empty(self) <=> len(self) = 0

\* C13: for every supported N and every reachable state, is_full() (computed as
\* N - len() == 1) is true exactly when advancing head by one with wraparound
\* would make it equal to tail: when (head + 1) mod N = tail.
C13_FullIffHeadNextIsTail ==
  is_full(self) <=> (N > 0 /\ (head + 1) % N = tail)

C13_Witness ==
  /\ op = "try_push_back" /\ ret = Ok
  /\ is_full(self) /\ N >= 3 /\ head = N - 1 /\ tail = 0

\* the failures wrap_add / wrap_sub raise when called outside idx < N, k < N
InternalFailures ==
  {"assertion failed: idx < self.cap()",
   "assertion failed: addend < self.cap()",
   "assertion failed: subtrahend < self.cap()",
   "very large addends are not currently supported",
   "attempt to calculate the remainder with a divisor of zero"}

\* C15: for every N the Array trait is implemented for (0 and 1 included) and
\* every sequence of public operations, wrap_add and wrap_sub are only called
\* with idx < N and addend / subtrahend < N, so no debug assertion, no 'very
\* large addends' panic and no modulo by zero is ever reached (nor a cursor
\* outside the array used).
C15_NoInternalFailure ==
  /\ ret.kind = "Panic" => ret.why \notin InternalFailures
  /\ ret.kind # "UB"

AllSome(c) == \A i \in DOMAIN c : c[i] = "Some"
SomesThenNone(k) == [i \in 1..(k + 1) |-> IF i <= k THEN "Some" ELSE "None"]

\* C16: if an element's destruction panics while Drop is draining, the drain
\* loop is not continued or run again and no slot is destroyed twice: over the
\* whole lifetime every element pushed is moved out of its slot at most once
\* (each move-out reads a slot that holds an element and leaves it empty), and
\* the backing block destroys no slot.
C16_PanickingDropDrainsAtMostOnce ==
  [][/\ alive = "live"
     /\ op' \in PopOps \cup DrainOps =>
          /\ reads' \subseteq Initialized
          /\ \A i \in reads' : buf'[i] = Uninit
     /\ (op' = "drop" /\ ret' = DtorPanic) =>
          LET j == Len(drops') IN
          /\ alive' = "dropped"
          /\ 1 <= j /\ j <= len(self)
          /\ drops' = [i \in 1..j |-> buf[(tail + i - 1) % N]]
          /\ Cardinality(reads') = j
          /\ Len(calls') = j /\ AllSome(calls')
          /\ \A i \in DOMAIN buf \ reads' : buf'[i] = buf[i]]_vars

C16_Witness ==
  /\ op = "drop" /\ ret = DtorPanic /\ alive = "dropped"
  /\ Len(drops) = 2 /\ Cardinality(Initialized) >= 1
  /\ pre.head < pre.tail

OtherSlotsKept(slot) == \A i \in DOMAIN buf \ {slot} : buf'[i] = buf[i]

\* C17: a successful try_push_back or pop_back moves head by one step (mod N)
\* and leaves tail; a successful try_push_front or pop_front moves tail by one
\* step (mod N) and leaves head; each leaves every other slot as it was; len(),
\* is_empty(), capacity() and get() change neither cursor nor any slot.
C17_OnlyOwnCursorAndSlot ==
  [][alive = "live" =>
       /\ (op' = "try_push_back" /\ ret' = Ok) =>
            (head' = (head + 1) % N /\ tail' = tail /\ OtherSlotsKept(head))
       /\ (op' = "pop_back" /\ ret'.kind = "Some") =>
            (head' = (head - 1) % N /\ tail' = tail /\ OtherSlotsKept(head'))
       /\ (op' = "try_push_front" /\ ret' = Ok) =>
            (tail' = (tail - 1) % N /\ head' = head /\ OtherSlotsKept(tail'))
       /\ (op' = "pop_front" /\ ret'.kind = "Some") =>
            (tail' = (tail + 1) % N /\ head' = head /\ OtherSlotsKept(tail))
       /\ op' \in {"len", "is_empty", "capacity", "get"} =>
            (tail' = tail /\ head' = head /\ buf' = buf /\ writes' = {})]_vars

C17_Witness ==
  /\ op = "try_push_front" /\ ret = Ok
  /\ pre.tail = 0 /\ tail = N - 1 /\ head = pre.head /\ len(self) >= 2

\* the logical range before the last operation
PreOccupied ==
  {(pre.tail + i) % N : i \in 0..(count(pre.tail, pre.head, N) - 1)}
AllPushOps == PushOps \cup {"push_back", "push_front"}

\* C18: in every reachable state the slots holding an element are exactly
\* { (tail + i) mod N : 0 <= i < len() }; so every buffer_write of a push targets
\* a slot of the array outside that set, and every buffer_read of a pop and every
\* reference of get / get_mut targets a slot inside it.
C18_InitializedIsLogicalRange ==
  /\ Initialized = (IF N > 0 THEN Occupied ELSE {})
  /\ (op \in AllPushOps /\ writes # {}) =>
       (writes \subseteq DOMAIN buf /\ writes \cap PreOccupied = {})
  /\ (op \in PopOps \cup DrainOps \cup GetOps /\ reads # {}) =>
       reads \subseteq PreOccupied

Samples(n) ==
  {x \in (0..MaxSample) \cup {n - 2, n - 1, n \div 2, 255, 256, 65535} : 0 <= x /\ x < n}

InitArith ==
  /\ N \in ArraySizes
  /\ debug \in BOOLEAN
  /\ tail \in Samples(N)
  /\ arg \in Samples(N)
  /\ head = 0 /\ buf = <<>> /\ alive = "live"
  /\ op = "new" /\ ret = Ok
  /\ reads = {} /\ writes = {} /\ drops = <<>> /\ calls = <<>>
  /\ pre = [tail |-> 0, head |-> 0]
  /\ list = <<>> /\ lret = NA

Apply(name, r) ==
  /\ op' = name /\ ret' = r
  /\ UNCHANGED <<N, debug, tail, head, buf, alive, arg, reads, writes, drops, calls,
                 pre, list, lret>>

Result(w) == IF w.ok THEN Val(to_usize(w.val)) ELSE Panic(w.why)

\* the deque exists for the sizes the target's usize can hold
OnTarget == N <= UsizeMax

ApplyWrapAdd == OnTarget /\ Apply("wrap_add", Result(wrap_add(tail, arg)))
ApplyWrapSub == OnTarget /\ Apply("wrap_sub", Result(wrap_sub(tail, arg)))
ApplyWrapAddSub ==
  /\ OnTarget
  /\ LET w == wrap_add(tail, arg) IN
     Apply("wrap_add_sub", IF w.ok THEN Result(wrap_sub(w.val, arg)) ELSE Panic(w.why))
ApplyIndexFrom == Apply("index_from", Val(to_usize(IndexFrom(arg))))

NextArith == ApplyWrapAdd \/ ApplyWrapSub \/ ApplyWrapAddSub \/ ApplyIndexFrom

SpecArith == InitArith /\ [][NextArith]_vars

\* C14: for every N >= 1 and all idx, k in [0, N), wrap_add(idx, k) is
\* (idx + k) mod N and wrap_sub(idx, k) is (idx - k) mod N (N added back when
\* k > idx), both in [0, N), and wrap_sub(wrap_add(idx, k), k) = idx.
C14_WrapAddSubAreModular ==
  (N >= 1 /\ tail < N /\ arg < N) =>
    /\ op = "wrap_add" => (ret = Val((tail + arg) % N) /\ ret.val \in 0..(N - 1))
    /\ op = "wrap_sub" =>
         /\ ret = Val((tail - arg) % N) /\ ret.val \in 0..(N - 1)
         /\ arg > tail => ret = Val(N - arg + tail)
    /\ op = "wrap_add_sub" => ret = Val(tail)

C14_Witness ==
  /\ op = "wrap_sub" /\ N = 224 /\ tail = 1 /\ arg = 223 /\ ret = Val(2)

\* C20: for every N the Array trait is implemented for, the index type (u8 for
\* N <= 224, u16 for 256..32768, u32 for 65536) holds every value of [0, N)
\* without truncation: Index::from(x).to_usize() = x for all 0 <= x < N.
C20_IndexHoldsEveryCursor ==
  /\ IndexBits(N) = (IF N \in U8Sizes THEN 8 ELSE IF N \in U16Sizes THEN 16 ELSE 32)
  /\ (op = "index_from" /\ arg < N) => ret = Val(arg)

C20_Witness ==
  /\ op = "index_from" /\ N = 32768 /\ arg = 32767 /\ ret = Val(32767)

====
